---- MODULE Spec2Model ----
(***************************************************************************)
(* A model of tfstate-tool: the state document held by                     *)
(* TerraformStateManager (core.py) and the operations that TerraformState- *)
(* Operations (operations.py) builds on it.                                *)
(*                                                                         *)
(* Strings whose characters the code inspects (split, isdigit, int,        *)
(* json.loads) are sequences of one-character strings: <<"t", ".", "a">>   *)
(* is the Python string "t.a".  The alphabet of the model is ASCII.        *)
(*                                                                         *)
(* A JSON value is a record [kind, v, keys, items]:                        *)
(*   kind "str"   v = the text                                             *)
(*   kind "num"   v = the decimal text of the number                       *)
(*   kind "bool"  v = <<"t">> or <<"f">>                                   *)
(*   kind "null"                                                           *)
(*   kind "map"   keys = the keys in insertion order, items = their values *)
(*   kind "list"  items = the elements                                     *)
(* Python objects are referred to by reference; here a reference into a    *)
(* tree is a location: the sequence of positions (in items) leading to it. *)
(*                                                                         *)
(* Specifications:                                                         *)
(*   Spec       modify, delete and move on a loaded manager                *)
(*   SpecOps    the safe operations of TerraformStateOperations, the clock *)
(*   SpecQuery  get_resource and list_resources, between moves and deletes *)
(*   SpecLoad   construction on a state file, then validate_state          *)
(*   SpecFile   _save_state and create_backup, between modifies            *)
(*   SpecBackups  safe operations and backups in succession, the clock     *)
(*   SpecReads  get_resource, list_resources and validate_state, between   *)
(*              modifies of whole keys, moves and deletes                  *)
(***************************************************************************)
EXTENDS Integers, Sequences, FiniteSets, TLC

VARIABLES
    state_data,   \* TerraformStateManager.state_data: the in-memory document
    disk,         \* the parsed content of the state file on disk
    backups,      \* backup files: timestamp -> content (a function)
    now,          \* the wall clock, in seconds
    last,         \* the last call: operation, arguments, outcome, output
    prev,         \* state_data before the last call
    nops          \* number of calls made so far

vars == <<state_data, disk, backups, now, last, prev, nops>>

\* Number of calls in one run of the model.
MaxOps == 2

-----------------------------------------------------------------------------
(* JSON values *)

Str(s) == [kind |-> "str", v |-> s, keys |-> <<>>, items |-> <<>>]
Num(s) == [kind |-> "num", v |-> s, keys |-> <<>>, items |-> <<>>]
Bool(b) == [kind |-> "bool", v |-> IF b THEN <<"t">> ELSE <<"f">>,
            keys |-> <<>>, items |-> <<>>]
Null == [kind |-> "null", v |-> <<>>, keys |-> <<>>, items |-> <<>>]
Map(ks, xs) == [kind |-> "map", v |-> <<>>, keys |-> ks, items |-> xs]
List(xs) == [kind |-> "list", v |-> <<>>, keys |-> <<>>, items |-> xs]
EmptyMap == Map(<<>>, <<>>)

IsMap(n) == n.kind = "map"
IsList(n) == n.kind = "list"

\* key in d
HasKey(d, k) == \E i \in 1..Len(d.keys) : d.keys[i] = k

\* position of key k in d (0 when absent)
KeyIdx(d, k) ==
    IF HasKey(d, k) THEN CHOOSE i \in 1..Len(d.keys) : d.keys[i] = k ELSE 0

\* d[k], for a key that is present
Get(d, k) == d.items[KeyIdx(d, k)]

\* d.get(k): None for an absent key
Field(d, k) == IF HasKey(d, k) THEN Get(d, k) ELSE Null

\* d[k] = x: an existing key keeps its position, a new key is appended
SetKey(d, k, x) ==
    IF HasKey(d, k)
    THEN [d EXCEPT !.items[KeyIdx(d, k)] = x]
    ELSE [d EXCEPT !.keys = Append(@, k), !.items = Append(@, x)]

\* the node at location loc of root
RECURSIVE GetAt(_, _)
GetAt(root, loc) ==
    IF loc = <<>> THEN root ELSE GetAt(root.items[Head(loc)], Tail(loc))

\* root with the node at location loc replaced by x
RECURSIVE PutAt(_, _, _)
PutAt(root, loc, x) ==
    IF loc = <<>> THEN x
    ELSE [root EXCEPT !.items[Head(loc)] = PutAt(@, Tail(loc), x)]

-----------------------------------------------------------------------------
(* Python string primitives *)

Digits == {"0", "1", "2", "3", "4", "5", "6", "7", "8", "9"}

\* str.isdigit(): non-empty and every character a digit
isdigit(s) == Len(s) > 0 /\ \A i \in 1..Len(s) : s[i] \in Digits

DigitVal(c) ==
    CASE c = "0" -> 0 [] c = "1" -> 1 [] c = "2" -> 2 [] c = "3" -> 3
      [] c = "4" -> 4 [] c = "5" -> 5 [] c = "6" -> 6 [] c = "7" -> 7
      [] c = "8" -> 8 [] c = "9" -> 9

\* int(s) for a string of digits
RECURSIVE int(_)
int(s) ==
    IF Len(s) = 0 THEN 0
    ELSE 10 * int(SubSeq(s, 1, Len(s) - 1)) + DigitVal(s[Len(s)])

\* position of the first "." in s (0 when there is none)
FirstDot(s) ==
    IF \E i \in 1..Len(s) : s[i] = "."
    THEN CHOOSE i \in 1..Len(s) : s[i] = "." /\ \A j \in 1..(i - 1) : s[j] # "."
    ELSE 0

\* s.split(".")
RECURSIVE split(_)
split(s) ==
    IF FirstDot(s) = 0 THEN <<s>>
    ELSE <<SubSeq(s, 1, FirstDot(s) - 1)>>
             \o split(SubSeq(s, FirstDot(s) + 1, Len(s)))

\* s.split(".", 1): at most one split, at the first "."
split1(s) ==
    IF FirstDot(s) = 0 THEN <<s>>
    ELSE <<SubSeq(s, 1, FirstDot(s) - 1), SubSeq(s, FirstDot(s) + 1, Len(s))>>

-----------------------------------------------------------------------------
(* Keys the code names *)

RESOURCES == <<"r", "e", "s", "o", "u", "r", "c", "e", "s">>
TYPE == <<"t", "y", "p", "e">>
NAME == <<"n", "a", "m", "e">>
VERSION == <<"v", "e", "r", "s", "i", "o", "n">>
MODE == <<"m", "o", "d", "e">>
INSTANCES == <<"i", "n", "s", "t", "a", "n", "c", "e", "s">>

\* self.state_data.get("resources", [])
Resources(sd) == IF HasKey(sd, RESOURCES) THEN Get(sd, RESOURCES) ELSE List(<<>>)

\* for ... in x: the elements a loop over x visits.  A list gives its
\* elements, a dict its keys and a string its characters; a number, a
\* boolean and None are not iterable (ok is FALSE: TypeError).
Iter(x) ==
    CASE x.kind = "list" -> [ok |-> TRUE, items |-> x.items]
      [] x.kind = "map" -> [ok |-> TRUE, items |-> [i \in 1..Len(x.keys) |-> Str(x.keys[i])]]
      [] x.kind = "str" -> [ok |-> TRUE, items |-> [i \in 1..Len(x.v) |-> Str(<<x.v[i]>>)]]
      [] OTHER -> [ok |-> FALSE, items |-> <<>>]

\* resource.get("type") == resource_type and resource.get("name") == resource_name
Matches(r, resource_type, resource_name) ==
    /\ HasKey(r, TYPE) /\ Get(r, TYPE) = Str(resource_type)
    /\ HasKey(r, NAME) /\ Get(r, NAME) = Str(resource_name)

-----------------------------------------------------------------------------
(* TerraformStateManager (core.py) *)

\* A slip of get_resource: the address is split at its last ".", and the
\* last match is returned.
get_resource_last(sd, address) ==
    LET parts == split(address)
        n == Len(parts)
        name == parts[n]
        type == SubSeq(address, 1, Len(address) - Len(name) - 1)
        rs == Iter(Resources(sd)).items
        hits == {i \in 1..Len(rs) : IsMap(rs[i]) /\ Matches(rs[i], type, name)}
    IN  IF n < 2 \/ ~Iter(Resources(sd)).ok THEN [raised |-> TRUE, idx |-> 0]
        ELSE IF hits = {} THEN [raised |-> FALSE, idx |-> 0]
        ELSE [raised |-> FALSE, idx |-> CHOOSE i \in hits : \A j \in hits : j <= i]

\* get_resource: the position in resources of the first resource at address
\* (0 for None); raised when the address has no "." (ValueError), when
\* resources is not iterable (TypeError) or when an entry that is not a dict
\* is reached before a match (AttributeError).
get_resource(sd, address) ==
    LET parts == split1(address)
        rs == Iter(Resources(sd)).items
        Stop(i) == ~IsMap(rs[i]) \/ Matches(rs[i], parts[1], parts[2])
    IN  IF Len(parts) # 2 \/ ~Iter(Resources(sd)).ok THEN [raised |-> TRUE, idx |-> 0]
        ELSE IF \E i \in 1..Len(rs) : Stop(i)
        THEN LET i == CHOOSE i \in 1..Len(rs) :
                          Stop(i) /\ \A j \in 1..(i - 1) : ~Stop(j)
             IN  IF IsMap(rs[i]) THEN [raised |-> FALSE, idx |-> i]
                 ELSE [raised |-> TRUE, idx |-> 0]
        ELSE [raised |-> FALSE, idx |-> 0]

\* An index segment passes when current is a list and the index is in range.
IndexOk(current, key) == IsList(current) /\ int(key) < Len(current.items)

\* A slip of Vivify: the key is set to {} whether or not it is there.
Vivify_replace(current, key) == SetKey(current, key, EmptyMap)

\* A key segment on a dict: if key not in current: current[key] = {}
Vivify(current, key) ==
    IF HasKey(current, key) THEN current ELSE SetKey(current, key, EmptyMap)

\* The loop of _navigate_to_path from segment i on: data is the root (the
\* resource) as mutated so far, loc the location of current in it.
RECURSIVE NavLoop(_, _, _, _)
NavLoop(data, loc, path_parts, i) ==
    IF i > Len(path_parts) - 1
    THEN [ok |-> TRUE, data |-> data, loc |-> loc]
    ELSE LET current == GetAt(data, loc)
             key == path_parts[i]
         IN  IF isdigit(key)
             THEN IF IndexOk(current, key)
                  THEN NavLoop(data, Append(loc, int(key) + 1), path_parts, i + 1)
                  ELSE [ok |-> FALSE, data |-> data, loc |-> loc]
             ELSE IF IsMap(current)
                  THEN LET cur2 == Vivify(current, key)
                       IN  NavLoop(PutAt(data, loc, cur2),
                                   Append(loc, KeyIdx(cur2, key)), path_parts, i + 1)
                  ELSE [ok |-> FALSE, data |-> data, loc |-> loc]

\* _navigate_to_path: ok = no ValueError; data = the root after the walk (maps
\* created on the way stay in it, also when the walk fails); loc = the parent.
_navigate_to_path(data, path_parts) == NavLoop(data, <<>>, path_parts, 1)

\* A slip of WriteFinal: the parent dict is replaced by one holding the key.
WriteFinal_clobber(parent, final_key, new_value) ==
    IF isdigit(final_key)
    THEN IF IndexOk(parent, final_key)
         THEN [ok |-> TRUE,
               parent |-> [parent EXCEPT !.items[int(final_key) + 1] = new_value]]
         ELSE [ok |-> FALSE, parent |-> parent]
    ELSE IF IsMap(parent)
         THEN [ok |-> TRUE, parent |-> Map(<<final_key>>, <<new_value>>)]
         ELSE [ok |-> FALSE, parent |-> parent]

\* A slip of WriteFinal: a digit key on a dict falls back to a key write.
WriteFinal_keyFallback(parent, final_key, new_value) ==
    IF isdigit(final_key) /\ IndexOk(parent, final_key)
    THEN [ok |-> TRUE,
          parent |-> [parent EXCEPT !.items[int(final_key) + 1] = new_value]]
    ELSE IF IsMap(parent)
    THEN [ok |-> TRUE, parent |-> SetKey(parent, final_key, new_value)]
    ELSE [ok |-> FALSE, parent |-> parent]

\* A slip of WriteFinal: an index past the end of the list appends.
WriteFinal_append(parent, final_key, new_value) ==
    IF isdigit(final_key)
    THEN IF IndexOk(parent, final_key)
         THEN [ok |-> TRUE,
               parent |-> [parent EXCEPT !.items[int(final_key) + 1] = new_value]]
         ELSE IF IsList(parent)
         THEN [ok |-> TRUE, parent |-> [parent EXCEPT !.items = Append(@, new_value)]]
         ELSE [ok |-> FALSE, parent |-> parent]
    ELSE IF IsMap(parent)
         THEN [ok |-> TRUE, parent |-> SetKey(parent, final_key, new_value)]
         ELSE [ok |-> FALSE, parent |-> parent]

\* The write at the final key: ok = no ValueError, parent = the parent after.
WriteFinal(parent, final_key, new_value) ==
    IF isdigit(final_key)
    THEN IF IndexOk(parent, final_key)
         THEN [ok |-> TRUE,
               parent |-> [parent EXCEPT !.items[int(final_key) + 1] = new_value]]
         ELSE [ok |-> FALSE, parent |-> parent]
    ELSE IF IsMap(parent)
         THEN [ok |-> TRUE, parent |-> SetKey(parent, final_key, new_value)]
         ELSE [ok |-> FALSE, parent |-> parent]

\* modify_resource_attribute: res is "true", "false" or "raise"; sd the
\* document after the call.
modify_resource_attribute(sd, address, attribute_path, new_value) ==
    LET g == get_resource(sd, address)
    IN  IF g.raised THEN [res |-> "raise", sd |-> sd]
        ELSE IF g.idx = 0 THEN [res |-> "false", sd |-> sd]
        ELSE LET rloc == <<KeyIdx(sd, RESOURCES), g.idx>>
                 keys == split(attribute_path)
                 nav == _navigate_to_path(GetAt(sd, rloc), keys)
                 w == WriteFinal(GetAt(nav.data, nav.loc), keys[Len(keys)], new_value)
             IN  IF ~nav.ok THEN [res |-> "false", sd |-> PutAt(sd, rloc, nav.data)]
                 ELSE IF ~w.ok THEN [res |-> "false", sd |-> PutAt(sd, rloc, nav.data)]
                 ELSE [res |-> "true",
                       sd |-> PutAt(sd, rloc, PutAt(nav.data, nav.loc, w.parent))]

\* A slip of KeepOthers: only the first resource at the address is dropped.
KeepOthers_first(rs, resource_type, resource_name) ==
    IF \E i \in 1..Len(rs) : Matches(rs[i], resource_type, resource_name)
    THEN LET i == CHOOSE i \in 1..Len(rs) :
                      /\ Matches(rs[i], resource_type, resource_name)
                      /\ \A j \in 1..(i - 1) : ~Matches(rs[j], resource_type, resource_name)
         IN  SubSeq(rs, 1, i - 1) \o SubSeq(rs, i + 1, Len(rs))
    ELSE rs

\* The list comprehension of delete_resource.
KeepOthers(rs, resource_type, resource_name) ==
    SelectSeq(rs, LAMBDA r : ~Matches(r, resource_type, resource_name))

\* delete_resource
delete_resource(sd, address) ==
    LET parts == split1(address)
        rs == Iter(Resources(sd)).items
    IN  IF Len(parts) # 2 \/ ~Iter(Resources(sd)).ok THEN [res |-> "raise", sd |-> sd]
        ELSE IF \E i \in 1..Len(rs) : ~IsMap(rs[i]) THEN [res |-> "raise", sd |-> sd]
        ELSE LET kept == KeepOthers(rs, parts[1], parts[2])
             IN  [res |-> IF Len(kept) < Len(rs) THEN "true" ELSE "false",
                  sd |-> SetKey(sd, RESOURCES, List(kept))]

\* A slip of Rename: the resource is rebuilt from its address and instances.
Rename_rebuilt(resource, new_type, new_name) ==
    Map(<<TYPE, NAME, INSTANCES>>,
        <<Str(new_type), Str(new_name), Field(resource, INSTANCES)>>)

\* A slip of Rename: the two fields are written the wrong way round.
Rename_swapped(resource, new_type, new_name) ==
    SetKey(SetKey(resource, TYPE, Str(new_name)), NAME, Str(new_type))

\* resource["type"] = new_type; resource["name"] = new_name
Rename(resource, new_type, new_name) ==
    SetKey(SetKey(resource, TYPE, Str(new_type)), NAME, Str(new_name))

\* A slip of move_resource: the resource is renamed before the target
\* address is looked up, so a collision is raised on a renamed document.
move_resource_renameFirst(sd, old_address, new_address) ==
    LET g == get_resource(sd, old_address)
        parts == split1(new_address)
    IN  IF g.raised THEN [res |-> "raise", sd |-> sd]
        ELSE IF g.idx = 0 THEN [res |-> "false", sd |-> sd]
        ELSE IF Len(parts) # 2 THEN [res |-> "raise", sd |-> sd]
        ELSE LET rloc == <<KeyIdx(sd, RESOURCES), g.idx>>
                 moved == PutAt(sd, rloc, Rename(GetAt(sd, rloc), parts[1], parts[2]))
             IN  [res |-> IF get_resource(sd, new_address).idx # 0 THEN "raise"
                          ELSE "true",
                  sd |-> moved]

\* move_resource
move_resource(sd, old_address, new_address) ==
    LET g == get_resource(sd, old_address)
        parts == split1(new_address)
    IN  IF g.raised THEN [res |-> "raise", sd |-> sd]
        ELSE IF g.idx = 0 THEN [res |-> "false", sd |-> sd]
        ELSE IF Len(parts) # 2 THEN [res |-> "raise", sd |-> sd]
        ELSE IF get_resource(sd, new_address).raised
                \/ get_resource(sd, new_address).idx # 0
        THEN [res |-> "raise", sd |-> sd]
        ELSE LET rloc == <<KeyIdx(sd, RESOURCES), g.idx>>
             IN  [res |-> "true",
                  sd |-> PutAt(sd, rloc, Rename(GetAt(sd, rloc), parts[1], parts[2]))]

\* the texts one after the other
RECURSIVE Concat(_)
Concat(seqs) == IF seqs = <<>> THEN <<>> ELSE Head(seqs) \o Concat(Tail(seqs))

\* an entry of the error list of validate_state: the message, and the
\* number it holds (-1 when it holds none)
Error(msg, i) == [msg |-> msg, i |-> i]

\* the errors validate_state appends for element i (from 0) of resources
ResourceErrors(resource, i) ==
    IF ~IsMap(resource) THEN <<Error("Resource {i} must be a dictionary", i)>>
    ELSE (IF HasKey(resource, TYPE) THEN <<>>
          ELSE <<Error("Resource {i} missing 'type'", i)>>)
         \o (IF HasKey(resource, NAME) THEN <<>>
             ELSE <<Error("Resource {i} missing 'name'", i)>>)

\* validate_state: (len(errors) == 0, errors); raised when enumerate() is
\* given a resources value that is not iterable (TypeError)
validate_state(sd) ==
    LET resources == Resources(sd)
        errors ==
            (IF HasKey(sd, RESOURCES) THEN <<>> ELSE <<Error("Missing 'resources' key", -1)>>)
            \o (IF HasKey(sd, VERSION) THEN <<>> ELSE <<Error("Missing 'version' key", -1)>>)
            \o (IF IsList(resources) THEN <<>> ELSE <<Error("'resources' must be a list", -1)>>)
            \o Concat([i \in 1..Len(Iter(resources).items) |->
                           ResourceErrors(Iter(resources).items[i], i - 1)])
    IN  IF ~IsMap(sd)
        THEN [raised |-> FALSE, valid |-> FALSE,
              errors |-> <<Error("State data must be a dictionary", -1)>>]
        ELSE IF ~Iter(resources).ok
        THEN [raised |-> TRUE, valid |-> FALSE, errors |-> <<>>]
        ELSE [raised |-> FALSE, valid |-> errors = <<>>, errors |-> errors]

\* A slip of create_backup: the document in memory is written to the backup.
create_backup_memory(sd, file, files, timestamp) == (timestamp :> sd) @@ files

\* create_backup: shutil.copy2 copies the state file (file) to
\* <state_file>.backup_<timestamp>; a backup already at that path is
\* overwritten.  files are the backups, by timestamp.
create_backup(sd, file, files, timestamp) == (timestamp :> file) @@ files

-----------------------------------------------------------------------------
(* json.loads and json.dump, on text over letters, digits, space, tab,     *)
(* newline and " \ / - . , : [ ] { } (of the escapes only \" \\ \/ \n \t;   *)
(* no exponents, no NaN or Infinity, numbers of a few digits)              *)

Whitespace == {" ", "\t", "\n", "\r"}

RECURSIVE SkipWs(_, _)
SkipWs(s, i) == IF i <= Len(s) /\ s[i] \in Whitespace THEN SkipWs(s, i + 1) ELSE i

\* s has lit at position i
StartsWith(s, i, lit) ==
    i + Len(lit) - 1 <= Len(s) /\ SubSeq(s, i, i + Len(lit) - 1) = lit

\* the first position from i on that holds no digit
RECURSIVE DigitsEnd(_, _)
DigitsEnd(s, i) == IF i <= Len(s) /\ s[i] \in Digits THEN DigitsEnd(s, i + 1) ELSE i

\* JSONDecodeError
Fail == [ok |-> FALSE, val |-> Null, next |-> 0]

\* digits without the zeros at their end
RECURSIVE StripZeros(_)
StripZeros(d) ==
    IF Len(d) > 0 /\ d[Len(d)] = "0" THEN StripZeros(SubSeq(d, 1, Len(d) - 1)) ELSE d

\* The text repr() gives the int or float that a number literal denotes: an
\* int is its own text but for -0, which is 0; a float loses the zeros that
\* end its fraction, keeping one digit.
NumberRepr(text) ==
    IF FirstDot(text) = 0
    THEN IF text = <<"-", "0">> THEN <<"0">> ELSE text
    ELSE LET frac == StripZeros(SubSeq(text, FirstDot(text) + 1, Len(text)))
         IN  SubSeq(text, 1, FirstDot(text)) \o (IF frac = <<>> THEN <<"0">> ELSE frac)

\* -?(0|[1-9][0-9]*)(.[0-9]+)? at position i
ParseNumber(s, i) ==
    LET j0 == IF s[i] = "-" THEN i + 1 ELSE i
        j1 == IF j0 <= Len(s) /\ s[j0] = "0" THEN j0 + 1 ELSE DigitsEnd(s, j0)
        j2 == IF j1 <= Len(s) /\ s[j1] = "." /\ DigitsEnd(s, j1 + 1) > j1 + 1
              THEN DigitsEnd(s, j1 + 1) ELSE j1
    IN  IF j1 = j0 THEN Fail
        ELSE [ok |-> TRUE, val |-> Num(NumberRepr(SubSeq(s, i, j2 - 1))), next |-> j2]

\* the first position from j on that holds a quote, a backslash or a
\* control character (Len(s) + 1 when there is none)
RECURSIVE PlainEnd(_, _)
PlainEnd(s, j) ==
    IF j <= Len(s) /\ s[j] \notin {"\"", "\\", "\n", "\t", "\r"}
    THEN PlainEnd(s, j + 1) ELSE j

\* the characters of a string literal from position j on, acc holding those
\* before: a raw control character ends the parse, as does an escape that
\* is not one of \" \\ \/ \n \t
RECURSIVE ScanString(_, _, _)
ScanString(s, j, acc) ==
    LET k == PlainEnd(s, j)
        plain == acc \o SubSeq(s, j, k - 1)
    IN  IF k > Len(s) \/ s[k] \in {"\n", "\t", "\r"} THEN Fail
        ELSE IF s[k] = "\"" THEN [ok |-> TRUE, val |-> Str(plain), next |-> k + 1]
        ELSE IF k + 1 > Len(s) THEN Fail
        ELSE IF s[k + 1] \in {"\"", "\\", "/"}
        THEN ScanString(s, k + 2, Append(plain, s[k + 1]))
        ELSE IF s[k + 1] = "n" THEN ScanString(s, k + 2, Append(plain, "\n"))
        ELSE IF s[k + 1] = "t" THEN ScanString(s, k + 2, Append(plain, "\t"))
        ELSE Fail

\* a string, s[i] being its opening quote
ParseString(s, i) == ScanString(s, i + 1, <<>>)

RECURSIVE ParseValue(_, _)
RECURSIVE ParseItems(_, _, _)
RECURSIVE ParseMembers(_, _, _)

\* a value at position i: ok, the value, the position after it
ParseValue(s, i) ==
    IF i > Len(s) THEN Fail
    ELSE IF s[i] = "\"" THEN ParseString(s, i)
    ELSE IF StartsWith(s, i, <<"n", "u", "l", "l">>)
    THEN [ok |-> TRUE, val |-> Null, next |-> i + 4]
    ELSE IF StartsWith(s, i, <<"t", "r", "u", "e">>)
    THEN [ok |-> TRUE, val |-> Bool(TRUE), next |-> i + 4]
    ELSE IF StartsWith(s, i, <<"f", "a", "l", "s", "e">>)
    THEN [ok |-> TRUE, val |-> Bool(FALSE), next |-> i + 5]
    ELSE IF s[i] = "["
    THEN IF StartsWith(s, SkipWs(s, i + 1), <<"]">>)
         THEN [ok |-> TRUE, val |-> List(<<>>), next |-> SkipWs(s, i + 1) + 1]
         ELSE ParseItems(s, SkipWs(s, i + 1), <<>>)
    ELSE IF s[i] = "{"
    THEN IF StartsWith(s, SkipWs(s, i + 1), <<"}">>)
         THEN [ok |-> TRUE, val |-> EmptyMap, next |-> SkipWs(s, i + 1) + 1]
         ELSE ParseMembers(s, SkipWs(s, i + 1), EmptyMap)
    ELSE IF s[i] = "-" \/ s[i] \in Digits THEN ParseNumber(s, i)
    ELSE Fail

\* the elements of an array from position i on, acc holding those before
ParseItems(s, i, acc) ==
    LET r == ParseValue(s, i)
        j == SkipWs(s, r.next)
    IN  IF ~r.ok \/ j > Len(s) THEN Fail
        ELSE IF s[j] = "]"
        THEN [ok |-> TRUE, val |-> List(Append(acc, r.val)), next |-> j + 1]
        ELSE IF s[j] = ","
        THEN ParseItems(s, SkipWs(s, j + 1), Append(acc, r.val))
        ELSE Fail

\* the members of an object from position i on, acc holding those before; a
\* key met again keeps its place and takes the later value
ParseMembers(s, i, acc) ==
    IF i > Len(s) \/ s[i] # "\"" THEN Fail
    ELSE LET k == ParseString(s, i)
             c == SkipWs(s, k.next)
         IN  IF ~k.ok \/ c > Len(s) \/ s[c] # ":" THEN Fail
             ELSE LET r == ParseValue(s, SkipWs(s, c + 1))
                      j == SkipWs(s, r.next)
                  IN  IF ~r.ok \/ j > Len(s) THEN Fail
                      ELSE IF s[j] = "}"
                      THEN [ok |-> TRUE, val |-> SetKey(acc, k.val.v, r.val),
                            next |-> j + 1]
                      ELSE IF s[j] = ","
                      THEN ParseMembers(s, SkipWs(s, j + 1),
                                        SetKey(acc, k.val.v, r.val))
                      ELSE Fail

\* json.loads(s): ok = no JSONDecodeError
json_loads(s) ==
    LET r == ParseValue(s, SkipWs(s, 1))
    IN  IF r.ok /\ SkipWs(s, r.next) = Len(s) + 1
        THEN [ok |-> TRUE, val |-> r.val]
        ELSE [ok |-> FALSE, val |-> Null]

\* a string between quotes, as json.dump writes it
RECURSIVE Escaped(_)
Escaped(t) ==
    IF \A i \in 1..Len(t) : t[i] \notin {"\"", "\\", "\n", "\t"} THEN t
    ELSE (CASE Head(t) = "\"" -> <<"\\", "\"">>
            [] Head(t) = "\\" -> <<"\\", "\\">>
            [] Head(t) = "\n" -> <<"\\", "n">>
            [] Head(t) = "\t" -> <<"\\", "t">>
            [] OTHER -> <<Head(t)>>) \o Escaped(Tail(t))

Quoted(t) == <<"\"">> \o Escaped(t) \o <<"\"">>

\* a newline and the indentation of a nesting level, two spaces a level
NewlineIndent(level) == <<"\n">> \o [i \in 1..(2 * level) |-> " "]

\* the texts joined by sep
RECURSIVE Join(_, _)
Join(texts, sep) ==
    IF Len(texts) = 0 THEN <<>>
    ELSE IF Len(texts) = 1 THEN texts[1]
    ELSE texts[1] \o sep \o Join(Tail(texts), sep)

\* A slip of MemberOrder: the members are written last key first.
MemberOrder_reversed(x) == [i \in 1..Len(x.keys) |-> Len(x.keys) + 1 - i]

\* the order in which the members of a dict are written: insertion order
MemberOrder(x) == [i \in 1..Len(x.keys) |-> i]

\* json.dump(obj, f, indent=2): the text written for a value at a level
RECURSIVE Encode(_, _)
Encode(x, level) ==
    CASE x.kind = "null" -> <<"n", "u", "l", "l">>
      [] x.kind = "bool" -> IF x.v = <<"t">> THEN <<"t", "r", "u", "e">>
                            ELSE <<"f", "a", "l", "s", "e">>
      [] x.kind = "num" -> x.v
      [] x.kind = "str" -> Quoted(x.v)
      [] x.kind = "list" ->
            IF x.items = <<>> THEN <<"[", "]">>
            ELSE <<"[">> \o NewlineIndent(level + 1)
                  \o Join([i \in 1..Len(x.items) |-> Encode(x.items[i], level + 1)],
                          <<",">> \o NewlineIndent(level + 1))
                  \o NewlineIndent(level) \o <<"]">>
      [] x.kind = "map" ->
            IF x.keys = <<>> THEN <<"{", "}">>
            ELSE LET order == MemberOrder(x)
                 IN  <<"{">> \o NewlineIndent(level + 1)
                       \o Join([i \in 1..Len(x.keys) |->
                                   Quoted(x.keys[order[i]]) \o <<":", " ">>
                                       \o Encode(x.items[order[i]], level + 1)],
                               <<",">> \o NewlineIndent(level + 1))
                       \o NewlineIndent(level) \o <<"}">>

json_dump(obj) == Encode(obj, 0)

\* repr(x), for strings that hold no quote, backslash or control character
RECURSIVE Repr(_)
Repr(x) ==
    CASE x.kind = "null" -> <<"N", "o", "n", "e">>
      [] x.kind = "bool" -> IF x.v = <<"t">> THEN <<"T", "r", "u", "e">>
                            ELSE <<"F", "a", "l", "s", "e">>
      [] x.kind = "num" -> x.v
      [] x.kind = "str" -> <<"'">> \o x.v \o <<"'">>
      [] x.kind = "list" ->
            <<"[">> \o Join([i \in 1..Len(x.items) |-> Repr(x.items[i])], <<",", " ">>)
                  \o <<"]">>
      [] x.kind = "map" ->
            <<"{">> \o Join([i \in 1..Len(x.keys) |->
                               Repr(Str(x.keys[i])) \o <<":", " ">> \o Repr(x.items[i])],
                           <<",", " ">>)
                  \o <<"}">>

\* str(x), as an f-string formats x
PyStr(x) == IF x.kind = "str" THEN x.v ELSE Repr(x)

\* d.get(k, default)
GetOr(d, k, default) == IF HasKey(d, k) THEN Get(d, k) ELSE default

\* len(x) is defined for lists, dicts and strings
HasLen(x) == x.kind \in {"list", "map", "str"}
PyLen(x) == IF x.kind = "map" THEN Len(x.keys)
            ELSE IF x.kind = "str" THEN Len(x.v) ELSE Len(x.items)

\* bool(x) for an Optional[str]: None and "" are false
Truthy(x) == x.kind = "str" /\ x.v # <<>>

\* fnmatch.fnmatch(name, pat) on a POSIX system, for patterns without [
RECURSIVE fnmatch(_, _)
fnmatch(name, pat) ==
    IF pat = <<>> THEN name = <<>>
    ELSE IF Head(pat) = "*"
    THEN fnmatch(name, Tail(pat)) \/ (name # <<>> /\ fnmatch(Tail(name), pat))
    ELSE /\ name # <<>>
         /\ Head(pat) = "?" \/ Head(pat) = Head(name)
         /\ fnmatch(Tail(name), Tail(pat))

UNKNOWN == <<"u", "n", "k", "n", "o", "w", "n">>
MANAGED == <<"m", "a", "n", "a", "g", "e", "d">>

\* resource_info of list_resources
ResourceInfo(resource) ==
    [address |-> PyStr(GetOr(resource, TYPE, Str(UNKNOWN))) \o <<".">>
                     \o PyStr(GetOr(resource, NAME, Str(UNKNOWN))),
     type |-> Field(resource, TYPE),
     name |-> Field(resource, NAME),
     mode |-> GetOr(resource, MODE, Str(MANAGED)),
     instances |-> PyLen(GetOr(resource, INSTANCES, List(<<>>)))]

\* the filters of list_resources: continue when a filter is given and fails
Listed(resource, resource_type, name_pattern) ==
    /\ ~(Truthy(resource_type) /\ ResourceInfo(resource).type # resource_type)
    /\ ~(Truthy(name_pattern)
            /\ ~fnmatch(ResourceInfo(resource).address, name_pattern.v))

\* list_resources(resource_type, name_pattern), each None or a string;
\* raised when resources is not iterable (TypeError), an element is not a
\* dict (AttributeError) or an instances value has no len() (TypeError)
list_resources(sd, resource_type, name_pattern) ==
    LET rs == Iter(Resources(sd)).items
    IN  IF \/ ~Iter(Resources(sd)).ok
           \/ \E i \in 1..Len(rs) :
                  ~IsMap(rs[i]) \/ ~HasLen(GetOr(rs[i], INSTANCES, List(<<>>)))
        THEN [raised |-> TRUE, out |-> <<>>]
        ELSE LET listed == SelectSeq(rs, LAMBDA r : Listed(r, resource_type, name_pattern))
             IN  [raised |-> FALSE,
                  out |-> [k \in 1..Len(listed) |-> ResourceInfo(listed[k])]]

\* A state file: absent, or holding a text.
AbsentFile == [exists |-> FALSE, text |-> <<>>]
FileOf(text) == [exists |-> TRUE, text |-> text]

\* no TerraformStateManager: the constructor raised
NoDocument == [kind |-> "none", v |-> <<>>, keys |-> <<>>, items |-> <<>>]

\* __init__ and _load_state: the document of the manager constructed on a
\* file, or the error raised
_load_state(file) ==
    IF ~file.exists THEN [res |-> "FileNotFoundError", sd |-> NoDocument]
    ELSE IF ~json_loads(file.text).ok THEN [res |-> "ValueError", sd |-> NoDocument]
    ELSE IF ~IsMap(json_loads(file.text).val)
    THEN [res |-> "ValueError", sd |-> NoDocument]
    ELSE IF ~HasKey(json_loads(file.text).val, RESOURCES)
    THEN [res |-> "ValueError", sd |-> NoDocument]
    ELSE [res |-> "ok", sd |-> json_loads(file.text).val]

\* _save_state: json.dump(self.state_data, f, indent=2) replaces the content
\* of the state file; the result is what the file then parses to.
_save_state(sd) == json_loads(json_dump(sd)).val

-----------------------------------------------------------------------------
(* TerraformStateOperations (operations.py) *)

\* _convert_value: the except branch ends in a bare return, which gives None
_convert_value(value_str) ==
    LET r == json_loads(value_str) IN IF r.ok THEN r.val ELSE Null

\* What a safe operation has done, in the order it did it.
CHECK == "existence check"
CONFIRM == "confirmation"
BACKUP == "backup"
MUTATE == "in-memory mutation"
SAVE == "save"

\* A safe operation from its confirmation on, the existence checks having
\* passed: confirm is the answer to Confirm.ask, m the outcome of the core
\* mutation ("raise" is caught by except Exception).  res is the value
\* returned; sd, file and files are the document, the state file and the
\* backups after; events is what was done.
Confirmed(sd, file, files, timestamp, m, confirm) ==
    IF ~confirm
    THEN [res |-> "false", sd |-> sd, file |-> file, files |-> files,
          events |-> <<CHECK, CONFIRM>>]
    ELSE IF m.res = "true"
    THEN [res |-> "true", sd |-> m.sd, file |-> _save_state(m.sd),
          files |-> create_backup(sd, file, files, timestamp),
          events |-> <<CHECK, CONFIRM, BACKUP, MUTATE, SAVE>>]
    ELSE [res |-> "false", sd |-> m.sd, file |-> file,
          files |-> create_backup(sd, file, files, timestamp),
          events |-> <<CHECK, CONFIRM, BACKUP, MUTATE>>]

\* A safe operation that ends in its existence checks: res is "raise" (an
\* error of get_resource escapes) or "false".
Refused(sd, file, files, res) ==
    [res |-> res, sd |-> sd, file |-> file, files |-> files, events |-> <<CHECK>>]

\* modify_resource_safe
modify_resource_safe(sd, file, files, timestamp, address, attribute_path, new_value, confirm) ==
    IF get_resource(sd, address).raised THEN Refused(sd, file, files, "raise")
    ELSE IF get_resource(sd, address).idx = 0 THEN Refused(sd, file, files, "false")
    ELSE Confirmed(sd, file, files, timestamp,
                   modify_resource_attribute(sd, address, attribute_path,
                                             _convert_value(new_value)),
                   confirm)

\* A slip of delete_resource_safe: the backup is taken after the save.
delete_resource_safe_lateBackup(sd, file, files, timestamp, address, confirm) ==
    LET m == delete_resource(sd, address)
    IN  IF get_resource(sd, address).raised THEN Refused(sd, file, files, "raise")
        ELSE IF get_resource(sd, address).idx = 0 THEN Refused(sd, file, files, "false")
        ELSE IF confirm /\ m.res = "true"
        THEN [res |-> "true", sd |-> m.sd, file |-> _save_state(m.sd),
              files |-> create_backup(m.sd, _save_state(m.sd), files, timestamp),
              events |-> <<CHECK, CONFIRM, MUTATE, SAVE, BACKUP>>]
        ELSE Confirmed(sd, file, files, timestamp, m, confirm)

\* delete_resource_safe
delete_resource_safe(sd, file, files, timestamp, address, confirm) ==
    IF get_resource(sd, address).raised THEN Refused(sd, file, files, "raise")
    ELSE IF get_resource(sd, address).idx = 0 THEN Refused(sd, file, files, "false")
    ELSE Confirmed(sd, file, files, timestamp, delete_resource(sd, address), confirm)

\* move_resource_safe: a resource already at new_address ends the call with
\* False before the confirmation
move_resource_safe(sd, file, files, timestamp, old_address, new_address, confirm) ==
    IF get_resource(sd, old_address).raised THEN Refused(sd, file, files, "raise")
    ELSE IF get_resource(sd, old_address).idx = 0 THEN Refused(sd, file, files, "false")
    ELSE IF get_resource(sd, new_address).raised THEN Refused(sd, file, files, "raise")
    ELSE IF get_resource(sd, new_address).idx # 0 THEN Refused(sd, file, files, "false")
    ELSE Confirmed(sd, file, files, timestamp,
                   move_resource(sd, old_address, new_address), confirm)

-----------------------------------------------------------------------------
(* Documents and inputs of the model *)

PROVIDER == <<"p", "r", "o", "v">>
ATTRIBUTES == <<"a", "t", "t", "r">>
TAGS == <<"t", "a", "g", "s">>
TagName == <<"N", "a", "m", "e">>
TagEnv == <<"E", "n", "v">>

\* a.b as a dotted string
Dot(a, b) == a \o <<".">> \o b

\* One instance: attributes with a tags map and a key that is the string "0".
Instance1 ==
    Map(<<ATTRIBUTES>>,
        <<Map(<<TAGS, <<"0">>>>,
              <<Map(<<TagName>>, <<Str(<<"W">>)>>), Str(<<"z">>)>>)>>)

Resource(type, name, mode, instances) ==
    Map(<<MODE, TYPE, NAME, PROVIDER, INSTANCES>>,
        <<Str(mode), Str(type), Str(name), Str(<<"p">>), List(instances)>>)

\* t.a: one instance, and a key x holding a map with one key
Web ==
    SetKey(Resource(<<"t">>, <<"a">>, <<"m">>, <<Instance1>>),
           <<"x">>, Map(<<<<"w">>>>, <<Str(<<"k">>)>>))
Db == Resource(<<"t">>, <<"b">>, <<"m">>, <<>>)
Web2 == Resource(<<"t">>, <<"a">>, <<"d">>, <<>>)
Other == Resource(<<"u">>, <<"a">>, <<"m">>, <<>>)

Document(resources) ==
    Map(<<VERSION, RESOURCES>>, <<Num(<<"4">>), List(resources)>>)

\* Loaded documents: one with unique addresses, one holding two resources
\* at address t.a (load accepts it).
InitialDocuments == {Document(<<Web, Db>>), Document(<<Web, Db, Web2, Other>>)}

\* t.a, t.b, u.c (at no resource) and an address without the separator
Addresses == {<<"t", ".", "a">>, <<"t", ".", "b">>, <<"u", ".", "c">>, <<"t", "a">>}

\* instances.0.attributes.tags.Env
TagEnvPath == Dot(Dot(Dot(Dot(INSTANCES, <<"0">>), ATTRIBUTES), TAGS), TagEnv)

Paths ==
    { TagEnvPath,
      Dot(Dot(Dot(Dot(Dot(INSTANCES, <<"0">>), ATTRIBUTES), TAGS), TagName), <<"q">>),
      Dot(Dot(Dot(INSTANCES, <<"0">>), ATTRIBUTES), <<"0">>),
      Dot(Dot(Dot(Dot(INSTANCES, <<"0">>), ATTRIBUTES), <<"0">>), <<"q">>),
      Dot(INSTANCES, <<"0">>),
      Dot(INSTANCES, <<"1">>),
      Dot(INSTANCES, TAGS),
      Dot(Dot(INSTANCES, TAGS), <<"q">>),
      <<"x", ".", "y", ".", "z">>,
      <<"x", ".", "0">>,
      <<"x", ".", "0", ".", "y">>,
      NAME }

Values == {Str(<<"b">>), Num(<<"5">>)}

NoCall ==
    [op |-> "none", address |-> <<>>, arg |-> <<>>, raw |-> <<>>, value |-> Null,
     res |-> "none", out |-> <<>>]

-----------------------------------------------------------------------------
(* The calls a library consumer makes on one TerraformStateManager *)

Init ==
    /\ state_data \in InitialDocuments
    /\ disk = state_data
    /\ backups = <<>>
    /\ now = 0
    /\ last = NoCall
    /\ prev = state_data
    /\ nops = 0

Modify(address, attribute_path, new_value) ==
    /\ nops < MaxOps
    /\ LET r == modify_resource_attribute(state_data, address, attribute_path, new_value)
       IN  /\ state_data' = r.sd
           /\ last' = [op |-> "modify", address |-> address, arg |-> attribute_path,
                       raw |-> <<>>, value |-> new_value, res |-> r.res, out |-> <<>>]
    /\ prev' = state_data
    /\ nops' = nops + 1
    /\ UNCHANGED <<disk, backups, now>>

Delete(address) ==
    /\ nops < MaxOps
    /\ LET r == delete_resource(state_data, address)
       IN  /\ state_data' = r.sd
           /\ last' = [op |-> "delete", address |-> address, arg |-> <<>>,
                       raw |-> <<>>, value |-> Null, res |-> r.res, out |-> <<>>]
    /\ prev' = state_data
    /\ nops' = nops + 1
    /\ UNCHANGED <<disk, backups, now>>

Move(old_address, new_address) ==
    /\ nops < MaxOps
    /\ LET r == move_resource(state_data, old_address, new_address)
       IN  /\ state_data' = r.sd
           /\ last' = [op |-> "move", address |-> old_address, arg |-> new_address,
                       raw |-> <<>>, value |-> Null, res |-> r.res, out |-> <<>>]
    /\ prev' = state_data
    /\ nops' = nops + 1
    /\ UNCHANGED <<disk, backups, now>>

Next ==
    \/ \E a \in Addresses, p \in Paths, v \in Values : Modify(a, p, v)
    \/ \E a \in Addresses : Delete(a)
    \/ \E a \in Addresses, b \in Addresses : Move(a, b)

Spec == Init /\ [][Next]_vars

-----------------------------------------------------------------------------
(* The calls the command line makes on one TerraformStateOperations *)

\* Seconds the clock may advance in one run of the model.
MaxClock == 1

\* Number of safe operations in one run of the model.
MaxSafeOps == 1

\* Values as typed on the command line: 3, true, null, production, "x", {},
\* [1, 2], {"a": 1}, 3x and the empty string
RawValues ==
    { <<"3">>, <<"t", "r", "u", "e">>, <<"n", "u", "l", "l">>,
      <<"p", "r", "o", "d", "u", "c", "t", "i", "o", "n">>,
      <<"\"", "x", "\"">>, <<"{", "}">>, <<"[", "1", ",", " ", "2", "]">>,
      <<"{", "\"", "a", "\"", ":", " ", "1", "}">>, <<"3", "x">>, <<>> }

SafePaths == {TagEnvPath, <<"x", ".", "0">>}

\* The modifications asked for: 3 and production at every address and path,
\* and every raw value at instances.0.attributes.tags.Env of t.a
SafeModifies ==
    (Addresses \X SafePaths
        \X {<<"3">>, <<"p", "r", "o", "d", "u", "c", "t", "i", "o", "n">>})
    \cup ({<<"t", ".", "a">>} \X {TagEnvPath} \X RawValues)

\* one call of each safe operation on a TerraformStateOperations object
ModifySafeCall(address, attribute_path, new_value, confirm) ==
    /\ LET r == modify_resource_safe(state_data, disk, backups, now, address,
                                     attribute_path, new_value, confirm)
       IN  /\ state_data' = r.sd
           /\ disk' = r.file
           /\ backups' = r.files
           /\ last' = [op |-> "modify_safe", address |-> address,
                       arg |-> attribute_path, raw |-> new_value,
                       value |-> Null, res |-> r.res, out |-> r.events]
    /\ prev' = state_data
    /\ nops' = nops + 1
    /\ UNCHANGED now

ModifySafe(address, attribute_path, new_value, confirm) ==
    nops < MaxSafeOps /\ ModifySafeCall(address, attribute_path, new_value, confirm)

DeleteSafeCall(address, confirm) ==
    /\ LET r == delete_resource_safe(state_data, disk, backups, now, address, confirm)
       IN  /\ state_data' = r.sd
           /\ disk' = r.file
           /\ backups' = r.files
           /\ last' = [op |-> "delete_safe", address |-> address, arg |-> <<>>,
                       raw |-> <<>>, value |-> Null, res |-> r.res, out |-> r.events]
    /\ prev' = state_data
    /\ nops' = nops + 1
    /\ UNCHANGED now

DeleteSafe(address, confirm) ==
    nops < MaxSafeOps /\ DeleteSafeCall(address, confirm)

MoveSafeCall(old_address, new_address, confirm) ==
    /\ LET r == move_resource_safe(state_data, disk, backups, now, old_address,
                                   new_address, confirm)
       IN  /\ state_data' = r.sd
           /\ disk' = r.file
           /\ backups' = r.files
           /\ last' = [op |-> "move_safe", address |-> old_address,
                       arg |-> new_address, raw |-> <<>>, value |-> Null,
                       res |-> r.res, out |-> r.events]
    /\ prev' = state_data
    /\ nops' = nops + 1
    /\ UNCHANGED now

MoveSafe(old_address, new_address, confirm) ==
    nops < MaxSafeOps /\ MoveSafeCall(old_address, new_address, confirm)

\* a second passes
Tick ==
    /\ now < MaxClock
    /\ now' = now + 1
    /\ UNCHANGED <<state_data, disk, backups, last, prev, nops>>

NextOps ==
    \/ \E m \in SafeModifies, c \in BOOLEAN : ModifySafe(m[1], m[2], m[3], c)
    \/ \E a \in Addresses, c \in BOOLEAN : DeleteSafe(a, c)
    \/ \E a \in Addresses, b \in Addresses, c \in BOOLEAN : MoveSafe(a, b, c)
    \/ Tick

SpecOps == Init /\ [][NextOps]_vars

-----------------------------------------------------------------------------
(* Lookups and listings, between renames and removals *)

\* t.a.b: the name holds the separator
Dotted == Resource(<<"t">>, <<"a", ".", "b">>, <<"m">>, <<>>)

\* a resource with neither type nor mode, and one with no name
NoType == Map(<<NAME, INSTANCES>>, <<Str(<<"a">>), List(<<Instance1, Instance1>>)>>)
NoName == Map(<<TYPE, MODE>>, <<Str(<<"t">>), Str(<<"d">>)>>)

\* type t.a, name b: the type holds the separator
DottedType == Resource(<<"t", ".", "a">>, <<"b">>, <<"m">>, <<>>)

QueryDocuments ==
    InitialDocuments
        \cup {Document(<<NoType, Dotted, NoName, Web2, Web>>), Document(<<>>),
              Document(<<DottedType, Web>>)}

QueryAddresses == Addresses \cup {<<"t", ".", "a", ".", "b">>}

InitQuery ==
    /\ state_data \in QueryDocuments
    /\ disk = state_data
    /\ backups = <<>>
    /\ now = 0
    /\ last = NoCall
    /\ prev = state_data
    /\ nops = 0

\* manager.get_resource(address): the resource is returned by reference
Find(address) ==
    /\ nops < MaxOps
    /\ LET g == get_resource(state_data, address)
       IN  last' = [op |-> "get", address |-> address, arg |-> <<>>, raw |-> <<>>,
                    value |-> Null,
                    res |-> IF g.raised THEN "raise"
                            ELSE IF g.idx = 0 THEN "none" ELSE "found",
                    out |-> IF g.raised \/ g.idx = 0 THEN <<>>
                            ELSE <<Resources(state_data).items[g.idx]>>]
    /\ prev' = state_data
    /\ nops' = nops + 1
    /\ UNCHANGED <<state_data, disk, backups, now>>

\* manager.list_resources(resource_type, name_pattern)
ListCall(resource_type, name_pattern) ==
    /\ nops < MaxOps
    /\ LET r == list_resources(state_data, resource_type, name_pattern)
       IN  last' = [op |-> "list", address |-> <<>>, arg |-> <<>>,
                    raw |-> name_pattern.v, value |-> resource_type,
                    res |-> IF r.raised THEN "raise" ELSE "ok", out |-> r.out]
    /\ prev' = state_data
    /\ nops' = nops + 1
    /\ UNCHANGED <<state_data, disk, backups, now>>

\* type filters: none, t, u and the empty string
TypeFilters == {Null, Str(<<"t">>), Str(<<"u">>), Str(<<>>)}

\* address patterns: none, t.* and ?.a
NamePatterns == {Null, Str(<<"t", ".", "*">>), Str(<<"?", ".", "a">>)}

NextQuery ==
    \/ \E a \in QueryAddresses : Find(a)
    \/ \E t \in TypeFilters, n \in NamePatterns : ListCall(t, n)
    \/ \E a \in QueryAddresses : Delete(a)
    \/ \E a \in QueryAddresses, b \in QueryAddresses : Move(a, b)

SpecQuery == InitQuery /\ [][NextQuery]_vars

-----------------------------------------------------------------------------
(* Construction on a state file, and validation *)

\* Elements of a resources list: resources with and without type and name,
\* and elements that are not maps.
Entries == {Db, NoType, NoName, EmptyMap, Num(<<"7">>), List(<<>>)}

\* Values of the resources key: the lists of at most two entries, and values
\* that are not lists.
ResourcesValues ==
    {List(<<>>)} \cup {List(<<e>>) : e \in Entries}
        \cup {List(<<e, f>>) : e \in Entries, f \in Entries}
        \cup {Num(<<"5">>), Null, Bool(TRUE), Str(<<"a", "b">>), Str(<<>>), EmptyMap,
              Map(<<TYPE, NAME>>, <<Str(<<"t">>), Str(<<"a">>)>>)}

\* Roots that hold a resources key, with and without version, and roots
\* that hold none or are not maps.
Roots ==
    {Document(rs.items) : rs \in {v \in ResourcesValues : IsList(v)}}
        \cup {Map(<<VERSION, RESOURCES>>, <<Num(<<"4">>), v>>) : v \in ResourcesValues}
        \cup {Map(<<RESOURCES>>, <<v>>) : v \in ResourcesValues}
        \cup {EmptyMap, Map(<<VERSION>>, <<Num(<<"4">>)>>), List(<<Db>>), Num(<<"4">>),
              Str(RESOURCES), Null}

\* A text json.dump would not write: no indentation, tabs, a key given
\* twice, numbers -0 and 1.50, escapes in a key and in a value:
\* {"z":1,"y":1.50,\t"resources":[{"name":"b","type":"t","k\"":"a\nb"},-0, {}],"z":[ ]}
LooseText ==
    <<"{", "\"", "z", "\"", ":", "1", ",">>
    \o <<"\"", "y", "\"", ":", "1", ".", "5", "0", ",", "\t">>
    \o Quoted(RESOURCES) \o <<":", "[", "{">>
    \o Quoted(NAME) \o <<":", "\"", "b", "\"", ",">>
    \o Quoted(TYPE) \o <<":", "\"", "t", "\"", ",">>
    \o <<"\"", "k", "\\", "\"", "\"", ":", "\"", "a", "\\", "n", "b", "\"", "}", ",">>
    \o <<"-", "0", ",", " ", "{", "}", "]", ",", "\"", "z", "\"", ":", "[", " ", "]", "}">>

\* State files: none, texts that are not JSON, and the texts of the roots.
Files ==
    {AbsentFile, FileOf(<<>>), FileOf(<<"{">>),
     FileOf(<<"{", "\"", "r", "\"", ":", " ", "[", "}">>), FileOf(LooseText)}
        \cup {FileOf(json_dump(root)) : root \in Roots}

InitLoad ==
    /\ state_data = NoDocument
    /\ disk = NoDocument
    /\ backups = <<>>
    /\ now = 0
    /\ last = NoCall
    /\ prev = NoDocument
    /\ nops = 0

\* TerraformStateManager(state_file), the file being file
Construct(file) ==
    /\ state_data = NoDocument
    /\ nops < MaxOps
    /\ LET r == _load_state(file)
       IN  /\ state_data' = r.sd
           /\ last' = [op |-> "load", address |-> <<>>, arg |-> <<>>,
                       raw |-> file.text, value |-> Null, res |-> r.res, out |-> <<>>]
    /\ disk' = IF file.exists /\ json_loads(file.text).ok
               THEN json_loads(file.text).val ELSE NoDocument
    /\ prev' = state_data
    /\ nops' = nops + 1
    /\ UNCHANGED <<backups, now>>

\* manager.validate_state()
Validate ==
    /\ state_data # NoDocument
    /\ nops < MaxOps
    /\ LET r == validate_state(state_data)
       IN  last' = [op |-> "validate", address |-> <<>>, arg |-> <<>>, raw |-> <<>>,
                    value |-> Null,
                    res |-> IF r.raised THEN "raise"
                            ELSE IF r.valid THEN "true" ELSE "false",
                    out |-> r.errors]
    /\ prev' = state_data
    /\ nops' = nops + 1
    /\ UNCHANGED <<state_data, disk, backups, now>>

NextLoad ==
    \/ \E file \in Files : Construct(file)
    \/ Validate

SpecLoad == InitLoad /\ [][NextLoad]_vars

-----------------------------------------------------------------------------
(* Saves and backups by a library consumer, between changes in memory *)

InitFile ==
    /\ \E file \in Files :
           /\ _load_state(file).res = "ok"
           /\ state_data = _load_state(file).sd
    /\ disk = state_data
    /\ backups = <<>>
    /\ now = 0
    /\ last = NoCall
    /\ prev = state_data
    /\ nops = 0

\* manager._save_state()
Save ==
    /\ nops < MaxOps
    /\ disk' = _save_state(state_data)
    /\ last' = [op |-> "save", address |-> <<>>, arg |-> <<>>, raw |-> <<>>,
                value |-> Null, res |-> "ok", out |-> <<>>]
    /\ prev' = state_data
    /\ nops' = nops + 1
    /\ UNCHANGED <<state_data, backups, now>>

\* manager.create_backup()
Backup ==
    /\ nops < MaxOps
    /\ backups' = create_backup(state_data, disk, backups, now)
    /\ last' = [op |-> "backup", address |-> <<>>, arg |-> <<>>, raw |-> <<>>,
                value |-> Null, res |-> "ok", out |-> <<>>]
    /\ prev' = state_data
    /\ nops' = nops + 1
    /\ UNCHANGED <<state_data, disk, now>>

\* changes in memory: attributes of t.b, and its name
FilePaths == {<<"x", ".", "y">>, <<"x", ".", "0">>, NAME}

NextFile ==
    \/ \E p \in FilePaths : Modify(<<"t", ".", "b">>, p, Num(<<"5">>))
    \/ Save
    \/ Backup
    \/ Tick

SpecFile == InitFile /\ [][NextFile]_vars

-----------------------------------------------------------------------------
(* Safe operations and backups in succession on one state file, each       *)
(* confirmed *)

\* the values set at instances.0.attributes.tags.Env of t.a
RepeatedValues == {<<"3">>, <<"p", "r", "o", "d", "u", "c", "t", "i", "o", "n">>}

\* the resources removed
RepeatedAddresses == {<<"t", ".", "a">>, <<"t", ".", "b">>}

SafeModify(new_value) ==
    nops < MaxOps /\ ModifySafeCall(<<"t", ".", "a">>, TagEnvPath, new_value, TRUE)

SafeDelete(address) ==
    nops < MaxOps /\ DeleteSafeCall(address, TRUE)

NextBackups ==
    \/ \E v \in RepeatedValues : SafeModify(v)
    \/ \E a \in RepeatedAddresses : SafeDelete(a)
    \/ Backup
    \/ Tick

SpecBackups == Init /\ [][NextBackups]_vars

-----------------------------------------------------------------------------
(* Reads of a valid document, between changes of whole keys of a resource *)

\* documents that validate_state() accepts
InitReads ==
    /\ Init
    /\ ~validate_state(state_data).raised /\ validate_state(state_data).valid

\* the keys a modify overwrites: instances, type and name.  A path of one
\* segment creates no container, so that a call that fails changes nothing.
ReadPaths == {INSTANCES, TYPE, NAME}

NextReads ==
    \/ \E a \in Addresses, p \in ReadPaths, v \in Values : Modify(a, p, v)
    \/ \E a \in Addresses : Delete(a)
    \/ \E a \in Addresses, b \in Addresses : Move(a, b)
    \/ \E a \in Addresses : Find(a)
    \/ ListCall(Null, Null)
    \/ Validate

SpecReads == InitReads /\ [][NextReads]_vars

-----------------------------------------------------------------------------
(* Vocabulary of the properties *)

\* the resources sequence of a document
ResourceList(sd) == Resources(sd).items

\* no two resources of sd share (type, name)
UniqueAddresses(sd) ==
    \A i, j \in 1..Len(ResourceList(sd)) :
        i # j => ~( /\ Field(ResourceList(sd)[i], TYPE) = Field(ResourceList(sd)[j], TYPE)
                    /\ Field(ResourceList(sd)[i], NAME) = Field(ResourceList(sd)[j], NAME) )

\* positions of the resources of sd at address
MatchSet(sd, address) ==
    {i \in 1..Len(ResourceList(sd)) :
        Matches(ResourceList(sd)[i], split1(address)[1], split1(address)[2])}

\* find(address) returns a resource / returns nothing
Found(sd, address) ==
    ~get_resource(sd, address).raised /\ get_resource(sd, address).idx # 0
NotFound(sd, address) ==
    ~get_resource(sd, address).raised /\ get_resource(sd, address).idx = 0

\* the last call was op and ended with outcome res
Called(op, res) == last.op = op /\ last.res = res

\* the position of the resource the last call worked on, and the resource
\* before and after the call
Target == get_resource(prev, last.address).idx
Before == ResourceList(prev)[Target]
After == ResourceList(state_data)[Target]

\* the document has the keys it had, in their order, and but for resources
\* their values
MetadataUnchanged ==
    /\ state_data.kind = prev.kind
    /\ state_data.keys = prev.keys
    /\ \A k \in 1..Len(prev.keys) :
           prev.keys[k] # RESOURCES => state_data.items[k] = prev.items[k]
    /\ IsList(Resources(state_data))

\* every part of the document but the resource at position i is the same
OthersUnchanged(i) ==
    /\ MetadataUnchanged
    /\ Len(ResourceList(state_data)) = Len(ResourceList(prev))
    /\ \A j \in 1..Len(ResourceList(prev)) :
           j # i => ResourceList(state_data)[j] = ResourceList(prev)[j]

\* What a path meets in a resource, by reading only: one entry per segment
\* reached, with the container the segment applies to (an empty map where
\* the key above it is absent), the container's location, and whether the
\* container is absent from the resource.
RECURSIVE Walk(_, _, _, _)
Walk(node, loc, fresh, parts) ==
    IF parts = <<>> THEN <<>>
    ELSE LET seg == Head(parts)
             e == [seg |-> seg, at |-> node, loc |-> loc, fresh |-> fresh]
         IN  IF Len(parts) = 1 THEN <<e>>
             ELSE IF isdigit(seg)
             THEN IF IsList(node) /\ int(seg) < Len(node.items)
                  THEN <<e>> \o Walk(node.items[int(seg) + 1],
                                     Append(loc, int(seg) + 1), fresh, Tail(parts))
                  ELSE <<e>>
             ELSE IF IsMap(node)
             THEN IF HasKey(node, seg)
                  THEN <<e>> \o Walk(Get(node, seg),
                                     Append(loc, KeyIdx(node, seg)), fresh, Tail(parts))
                  ELSE <<e>> \o Walk(EmptyMap,
                                     Append(loc, Len(node.keys) + 1), TRUE, Tail(parts))
             ELSE <<e>>

\* what the path of the last modify call met in the resource it worked on
Met == Walk(Before, <<>>, FALSE, split(last.arg))

\* the segment does not fit the container it reached
Mismatch(e) ==
    \/ isdigit(e.seg) /\ ~IsList(e.at)
    \/ ~isdigit(e.seg) /\ ~IsMap(e.at)

\* an index segment reached a sequence too short for it
OutOfRange(e) ==
    isdigit(e.seg) /\ IsList(e.at) /\ int(e.seg) >= Len(e.at.items)

\* the value a path denotes in node, by reading only
RECURSIVE Read(_, _)
Read(node, parts) ==
    IF parts = <<>> THEN [ok |-> TRUE, val |-> node]
    ELSE IF isdigit(Head(parts))
    THEN IF IsList(node) /\ int(Head(parts)) < Len(node.items)
         THEN Read(node.items[int(Head(parts)) + 1], Tail(parts))
         ELSE [ok |-> FALSE, val |-> Null]
    ELSE IF IsMap(node) /\ HasKey(node, Head(parts))
         THEN Read(Get(node, Head(parts)), Tail(parts))
         ELSE [ok |-> FALSE, val |-> Null]

\* node shows value x at the dotted path
Shows(node, path, x) == Read(node, split(path)) = [ok |-> TRUE, val |-> x]

\* post is pre but for what lies on the path: at every level the other
\* elements and keys are the same, in the same order, and a key of the path
\* that was absent is added last.
RECURSIVE OnlyPathChanged(_, _, _)
OnlyPathChanged(pre, post, parts) ==
    IF isdigit(Head(parts))
    THEN /\ IsList(pre) /\ IsList(post)
         /\ Len(post.items) = Len(pre.items)
         /\ int(Head(parts)) < Len(pre.items)
         /\ \A j \in 1..Len(pre.items) :
                j # int(Head(parts)) + 1 => post.items[j] = pre.items[j]
         /\ Len(parts) > 1 =>
                OnlyPathChanged(pre.items[int(Head(parts)) + 1],
                                post.items[int(Head(parts)) + 1], Tail(parts))
    ELSE /\ IsMap(pre) /\ IsMap(post)
         /\ post.keys = IF HasKey(pre, Head(parts)) THEN pre.keys
                        ELSE Append(pre.keys, Head(parts))
         /\ \A j \in 1..Len(pre.keys) :
                pre.keys[j] # Head(parts) => post.items[j] = pre.items[j]
         /\ Len(parts) > 1 =>
                OnlyPathChanged(IF HasKey(pre, Head(parts))
                                THEN Get(pre, Head(parts)) ELSE EmptyMap,
                                Get(post, Head(parts)), Tail(parts))

-----------------------------------------------------------------------------
(* C1: a modify call that returns false leaves the in-memory document as   *)
(* it was before the call.  The code keeps the maps it created on the way  *)
(* to the failing segment: modify(t.b, x.0, v) returns false and leaves    *)
(* x = {} in the resource.                                                 *)
C1_FailedModifyLeavesDocument ==
    Called("modify", "false") => state_data = prev

(* C3: once the addresses of a document are pairwise distinct, they stay   *)
(* so across every modify, move and delete call.  modify(t.a, name, b)     *)
(* writes the name of another resource into t.a.                           *)
C3_UniqueAddressesPreserved ==
    [][UniqueAddresses(state_data) => UniqueAddresses(state_data')]_vars

(* C4 as claimed: after every move(a, b) that returns true, find(b)        *)
(* returns a resource, find(a) returns nothing and the number of resources *)
(* is unchanged, whatever the document.                                    *)
C4_MoveRetargets_AnyDocument ==
    Called("move", "true") =>
        /\ Found(state_data, last.arg)
        /\ NotFound(state_data, last.address)
        /\ Len(ResourceList(state_data)) = Len(ResourceList(prev))

(* C4, amended: the same, for a document that held exactly one resource at *)
(* address a before the move.                                              *)
C4_MoveRetargets ==
    (Called("move", "true") /\ Cardinality(MatchSet(prev, last.address)) = 1) =>
        /\ Found(state_data, last.arg)
        /\ NotFound(state_data, last.address)
        /\ Len(ResourceList(state_data)) = Len(ResourceList(prev))

C4_Witness ==
    /\ Called("move", "true")
    /\ Cardinality(MatchSet(prev, last.address)) = 1
    /\ Len(ResourceList(prev)) > 1

(* C5: a segment made only of digits is an index wherever it is met: when  *)
(* the container it reaches is a map (also one that has that very string   *)
(* as a key) or a scalar, and when a segment that is not all digits        *)
(* reaches a sequence or a scalar, modify returns false, no exception      *)
(* escapes, and, no map having been created on the way, nothing is         *)
(* written.                                                                *)
C5_DigitSegmentIsIndex ==
    (last.op = "modify" /\ Target # 0) =>
        \A i \in 1..Len(Met) :
            Mismatch(Met[i]) =>
                /\ last.res = "false"
                /\ (\A j \in 1..i : ~Met[j].fresh) => state_data = prev

C5_Witness ==
    /\ last.op = "modify" /\ Target # 0 /\ last.res = "false"
    /\ \E i \in 1..Len(Met) :
           /\ isdigit(Met[i].seg)
           /\ IsMap(Met[i].at) /\ HasKey(Met[i].at, Met[i].seg)

\* the sequence instances of the resource the last call worked on
InstancesBefore == Field(Before, INSTANCES)

\* Index segments are strict: out of range fails and the sequence keeps its
\* length; a call that succeeds met every index in range.
IndexStrict ==
    (last.op = "modify" /\ Target # 0) =>
        \A i \in 1..Len(Met) :
            /\ OutOfRange(Met[i]) =>
                   /\ last.res = "false"
                   /\ IsList(GetAt(After, Met[i].loc))
                   /\ Len(GetAt(After, Met[i].loc).items) = Len(Met[i].at.items)
            /\ (last.res = "true" /\ isdigit(Met[i].seg)) =>
                   IsList(Met[i].at) /\ int(Met[i].seg) < Len(Met[i].at.items)

(* C6 as claimed: index segments are strict, and                           *)
(* modify(addr, instances.0.attributes.tags.Env, x) succeeds whenever      *)
(* instances has at least one element and fails when it is empty.          *)
C6_IndexStrict_AnyElement ==
    /\ IndexStrict
    /\ (last.op = "modify" /\ Target # 0 /\ last.arg = TagEnvPath
            /\ IsList(InstancesBefore)) =>
           /\ Len(InstancesBefore.items) >= 1 => last.res = "true"
           /\ Len(InstancesBefore.items) = 0 => last.res = "false"

(* C6, amended: index segments are strict (an index i on a sequence of     *)
(* length n passes only if i < n; otherwise modify returns false and the   *)
(* sequence keeps length n), and                                           *)
(* modify(addr, instances.0.attributes.tags.Env, x) fails when instances   *)
(* is empty and succeeds when instances has at least one element and       *)
(* every container the key segments after it reach is a map.               *)
C6_IndexStrict ==
    /\ IndexStrict
    /\ (last.op = "modify" /\ Target # 0 /\ last.arg = TagEnvPath
            /\ IsList(InstancesBefore)) =>
           /\ (/\ Len(InstancesBefore.items) >= 1
               /\ \A i \in 1..Len(Met) : ~Mismatch(Met[i])) => last.res = "true"
           /\ Len(InstancesBefore.items) = 0 => last.res = "false"

C6_Witness ==
    /\ Called("modify", "false") /\ Target # 0 /\ last.arg = TagEnvPath
    /\ IsList(InstancesBefore) /\ Len(InstancesBefore.items) = 0
    /\ GetAt(After, <<KeyIdx(Before, INSTANCES)>>) = InstancesBefore

\* the path of the last modify call is three key segments
ThreeKeys ==
    /\ Len(split(last.arg)) = 3
    /\ \A i \in 1..3 : ~isdigit(split(last.arg)[i])
KeyA == split(last.arg)[1]
KeyB == split(last.arg)[2]
KeyC == split(last.arg)[3]

(* C7: modify(addr, a.b.c, v) on a resource that lacks key a, or whose a   *)
(* is a map lacking key b, returns true; an empty map is inserted at each  *)
(* missing key, a map a that exists keeps its other keys, and afterwards   *)
(* get(addr).a.b.c is v.                                                   *)
C7_AutoVivification ==
    (/\ last.op = "modify" /\ Target # 0 /\ ThreeKeys
     /\ \/ ~HasKey(Before, KeyA)
        \/ IsMap(Get(Before, KeyA)) /\ ~HasKey(Get(Before, KeyA), KeyB)) =>
        /\ last.res = "true"
        /\ After = SetKey(Before, KeyA,
                     SetKey(IF HasKey(Before, KeyA) THEN Get(Before, KeyA) ELSE EmptyMap,
                            KeyB, Map(<<KeyC>>, <<last.value>>)))
        /\ OthersUnchanged(Target)
        /\ get_resource(state_data, last.address) = [raised |-> FALSE, idx |-> Target]
        /\ Shows(After, last.arg, last.value)

C7_Witness ==
    /\ Called("modify", "true") /\ Target # 0 /\ ThreeKeys
    /\ HasKey(Before, KeyA)
    /\ IsMap(Get(Before, KeyA)) /\ ~HasKey(Get(Before, KeyA), KeyB)
    /\ Len(Get(Before, KeyA).keys) > 0

\* A successful modify changed nothing off its path: not in the resource it
\* worked on, not in another resource, not in the rest of the document.
ModifyFrame ==
    /\ OnlyPathChanged(Before, After, split(last.arg))
    /\ OthersUnchanged(Target)

(* C8 as claimed: a successful modify(addr, path, v) changes only what     *)
(* lies at the path, and get(addr) then shows v at path.                   *)
C8_ModifyFrame_GetShows ==
    Called("modify", "true") =>
        /\ ModifyFrame
        /\ Found(state_data, last.address)
        /\ Shows(ResourceList(state_data)[get_resource(state_data, last.address).idx],
                 last.arg, last.value)

(* C8, amended: a successful modify(addr, path, v) changes only what lies  *)
(* at the path, and the resource it worked on (the one get(addr) returned  *)
(* before the call, at the same position) shows v at path; get(addr)       *)
(* still returns that resource when the path does not start with type or   *)
(* name.                                                                   *)
C8_ModifyFrame ==
    Called("modify", "true") =>
        /\ ModifyFrame
        /\ Shows(After, last.arg, last.value)
        /\ split(last.arg)[1] \notin {TYPE, NAME} =>
               get_resource(state_data, last.address) = [raised |-> FALSE, idx |-> Target]

C8_Witness ==
    /\ Called("modify", "true") /\ last.arg = TagEnvPath
    /\ Shows(Before, Dot(Dot(Dot(Dot(INSTANCES, <<"0">>), ATTRIBUTES), TAGS), TagName),
             Str(<<"W">>))
    /\ Shows(After, Dot(Dot(Dot(Dot(INSTANCES, <<"0">>), ATTRIBUTES), TAGS), TagName),
             Str(<<"W">>))
    /\ Len(ResourceList(prev)) > 1

\* positions of the resources a delete(address) keeps
Kept == (1..Len(ResourceList(prev))) \ MatchSet(prev, last.address)

(* C9: delete(address) removes every resource at the address, keeps the    *)
(* others in their order, and returns true exactly when the sequence got   *)
(* shorter: one match shortens it by one, no match leaves it and returns   *)
(* false; afterwards find(address) returns nothing.                        *)
C9_DeleteRemovesAll ==
    (last.op = "delete" /\ last.res # "raise") =>
        /\ Len(ResourceList(state_data)) = Cardinality(Kept)
        /\ \A i \in Kept :
               ResourceList(state_data)[Cardinality({j \in Kept : j <= i})]
                   = ResourceList(prev)[i]
        /\ (last.res = "true") <=>
               (Len(ResourceList(state_data)) < Len(ResourceList(prev)))
        /\ Cardinality(MatchSet(prev, last.address)) = 1 =>
               Len(ResourceList(state_data)) = Len(ResourceList(prev)) - 1
        /\ Cardinality(MatchSet(prev, last.address)) = 0 =>
               /\ Len(ResourceList(state_data)) = Len(ResourceList(prev))
               /\ last.res = "false"
        /\ NotFound(state_data, last.address)
        /\ MetadataUnchanged

C9_Witness ==
    /\ Called("delete", "true")
    /\ Cardinality(MatchSet(prev, last.address)) = 2
    /\ Cardinality(Kept) = 2
    /\ \E i \in Kept : \E j \in MatchSet(prev, last.address) : i < j

(* C10: a successful move(old, new) writes only the type and the name of   *)
(* the resource found at old: its position, the order and values of its    *)
(* other fields (mode, provider, instances) and every other resource are   *)
(* as before.                                                              *)
C10_MoveFrame ==
    Called("move", "true") =>
        /\ OthersUnchanged(Target)
        /\ After.kind = "map" /\ After.keys = Before.keys
        /\ \A k \in 1..Len(Before.keys) :
               Before.keys[k] \notin {TYPE, NAME} => After.items[k] = Before.items[k]
        /\ Get(After, TYPE) = Str(split1(last.arg)[1])
        /\ Get(After, NAME) = Str(split1(last.arg)[2])

C10_Witness ==
    /\ Called("move", "true")
    /\ Target = 1 /\ Len(ResourceList(prev)) > 1
    /\ Get(Before, TYPE) # Get(After, TYPE)
    /\ Get(Before, NAME) # Get(After, NAME)
    /\ Len(Get(After, INSTANCES).items) = 1

(* C11: move(old, new) returns false when no resource is at old, raises    *)
(* when a resource is at old and one is at new (new = old included), and   *)
(* in both cases, and when new has no '.', leaves the in-memory document   *)
(* as it was.  An old without '.' is refused by the lookup itself.         *)
C11_MoveFailureModes ==
    last.op = "move" =>
        /\ (Len(split1(last.address)) = 2 /\ NotFound(prev, last.address))
               => (last.res = "false" /\ state_data = prev)
        /\ (Found(prev, last.address) /\ Len(split1(last.arg)) = 2
                /\ Found(prev, last.arg))
               => (last.res = "raise" /\ state_data = prev)
        /\ Len(split1(last.arg)) # 2
               => (last.res \in {"false", "raise"} /\ state_data = prev)

\* a move onto the address of another resource, after an unsaved change
C11_Witness ==
    /\ Called("move", "raise")
    /\ Found(prev, last.address) /\ Found(prev, last.arg)
    /\ last.address # last.arg
    /\ state_data # disk

\* address is type, a "." and name, and type holds no "."
SplitsAs(address, type, name) ==
    /\ address = type \o <<".">> \o name
    /\ \A i \in 1..Len(type) : type[i] # "."

\* positions of the resources of sd whose type and name are these strings
AtTypeName(sd, type, name) ==
    {i \in 1..Len(ResourceList(sd)) :
        /\ Field(ResourceList(sd)[i], TYPE) = Str(type)
        /\ Field(ResourceList(sd)[i], NAME) = Str(name)}

(* C12: find(address) fails when the address has no '.'; otherwise, with   *)
(* type the text before the first '.' and name the text after it, it       *)
(* returns the first resource in document order whose type and name both   *)
(* match, or nothing when none does; the document is as before the call.   *)
C12_FindFirstMatch ==
    last.op = "get" =>
        /\ state_data = prev
        /\ (\A i \in 1..Len(last.address) : last.address[i] # ".")
               => last.res = "raise"
        /\ \A k \in 1..Len(last.address) :
               LET type == SubSeq(last.address, 1, k - 1)
                   name == SubSeq(last.address, k + 1, Len(last.address))
                   at == AtTypeName(prev, type, name)
               IN  SplitsAs(last.address, type, name) =>
                      IF at = {} THEN last.res = "none" /\ last.out = <<>>
                      ELSE /\ last.res = "found"
                           /\ \E i \in at :
                                  /\ \A j \in at : i <= j
                                  /\ last.out = <<ResourceList(prev)[i]>>

\* a lookup of t.a.b finds the resource of type t named a.b, in a document
\* that holds two resources at t.a
C12_Witness ==
    /\ last.op = "get" /\ last.res = "found"
    /\ Len(split(last.address)) = 3
    /\ Field(last.out[1], NAME) = Str(<<"a", ".", "b">>)
    /\ Cardinality(AtTypeName(prev, <<"t">>, <<"a">>)) = 2

(* C13: validate() never throws: on every document load accepts (a map     *)
(* with a resources key, whatever its value and whatever the shape of each *)
(* entry) it returns a pair (flag, errors).  The code raises TypeError     *)
(* from enumerate() when resources is a number, a boolean or null.         *)
C13_ValidateNeverRaises ==
    last.op = "validate" => last.res \in {"true", "false"}

\* what validate() is to report on sd: a missing resources key, a resources
\* value that is not a sequence, a missing version key, and for element i
\* of the sequence: not a map, or a map missing type, or missing name
Violations(sd) ==
    (IF HasKey(sd, RESOURCES) THEN {} ELSE {Error("Missing 'resources' key", -1)})
    \cup (IF HasKey(sd, RESOURCES) /\ ~IsList(Get(sd, RESOURCES))
          THEN {Error("'resources' must be a list", -1)} ELSE {})
    \cup (IF HasKey(sd, VERSION) THEN {} ELSE {Error("Missing 'version' key", -1)})
    \cup (IF HasKey(sd, RESOURCES) /\ IsList(Get(sd, RESOURCES))
          THEN LET rs == Get(sd, RESOURCES).items
               IN  {Error("Resource {i} must be a dictionary", i - 1) :
                        i \in {j \in 1..Len(rs) : ~IsMap(rs[j])}}
                   \cup {Error("Resource {i} missing 'type'", i - 1) :
                        i \in {j \in 1..Len(rs) : IsMap(rs[j]) /\ ~HasKey(rs[j], TYPE)}}
                   \cup {Error("Resource {i} missing 'name'", i - 1) :
                        i \in {j \in 1..Len(rs) : IsMap(rs[j]) /\ ~HasKey(rs[j], NAME)}}
          ELSE {})

(* C14: validate() returns a flag that is true exactly when its error list *)
(* is empty, and the list holds one entry for every violation (of several, *)
(* each is reported), and none for two resources of one address.  With a   *)
(* resources value that is not iterable the code returns nothing: it       *)
(* raises after it has appended the error for it.                          *)
C14_ValidateReportsEveryViolation ==
    last.op = "validate" =>
        /\ last.res \in {"true", "false"}
        /\ last.res = "true" <=> last.out = <<>>
        /\ \A v \in Violations(prev) :
               Cardinality({k \in 1..Len(last.out) : last.out[k] = v}) = 1
        /\ IsList(Resources(prev)) => Len(last.out) = Cardinality(Violations(prev))

(* C15: a file whose root is not a map, or has no resources key, or whose  *)
(* resources value is not a sequence cannot be loaded, so the document of  *)
(* every constructed manager has a resources key that holds a sequence.    *)
(* The code never looks at the value of the key: {"resources": 5} loads.   *)
C15_LoadedResourcesIsSequence ==
    state_data # NoDocument =>
        /\ IsMap(state_data)
        /\ HasKey(state_data, RESOURCES)
        /\ IsList(Get(state_data, RESOURCES))

\* the resources of sd whose type is the string filter, in document order
OfType(sd, filter) ==
    SelectSeq(ResourceList(sd), LAMBDA r : Field(r, TYPE) = filter)

\* the summary of a resource whose type and name, where present, are strings
SummaryOf(r) ==
    [address |-> (IF HasKey(r, TYPE) THEN Get(r, TYPE).v ELSE UNKNOWN) \o <<".">>
                     \o (IF HasKey(r, NAME) THEN Get(r, NAME).v ELSE UNKNOWN),
     type |-> Field(r, TYPE),
     name |-> Field(r, NAME),
     mode |-> IF HasKey(r, MODE) THEN Get(r, MODE) ELSE Str(MANAGED),
     instances |-> IF HasKey(r, INSTANCES) THEN Len(Get(r, INSTANCES).items) ELSE 0]

(* C16: list(typeFilter) returns one summary (address, type, name, mode    *)
(* defaulting to managed, instance count) for every resource whose type    *)
(* equals typeFilter, and for every resource when no filter is given, in   *)
(* document order, and changes no resource, so that a second call returns  *)
(* the same.  The code takes the empty string for no filter.               *)
C16_ListSummaries ==
    (last.op = "list" /\ last.raw = <<>>) =>
        /\ last.res = "ok"
        /\ state_data = prev
        /\ LET expected == IF last.value = Null THEN ResourceList(prev)
                           ELSE OfType(prev, last.value)
           IN  last.out = [k \in 1..Len(expected) |-> SummaryOf(expected[k])]

(* C17: a document that is loaded and saved with no change in between is  *)
(* written to a file whose parsed content is the parsed content of the     *)
(* file it was loaded from, the resources and the keys of every map in     *)
(* their order.                                                            *)
C17_LoadSaveRoundTrip ==
    last.op = "save" =>
        /\ disk = state_data
        /\ nops = 1 => disk = prev

\* the first call is a save, of a document that holds a number with a
\* fraction, a key with an escaped quote and an empty map in a list
C17_Witness ==
    /\ last.op = "save" /\ nops = 1
    /\ \E k \in 1..Len(disk.keys) :
           disk.items[k].kind = "num" /\ FirstDot(disk.items[k].v) # 0
    /\ \E i \in 1..Len(ResourceList(disk)) :
           /\ IsMap(ResourceList(disk)[i])
           /\ \E k \in 1..Len(ResourceList(disk)[i].keys) :
                  \E c \in 1..Len(ResourceList(disk)[i].keys[k]) :
                      ResourceList(disk)[i].keys[k][c] = "\""
    /\ \E i \in 1..Len(ResourceList(disk)) : ResourceList(disk)[i] = EmptyMap

(* C18: backup() copies the state file as it is on disk, not the document  *)
(* in memory: whatever unsaved changes were made, the backup holds the     *)
(* content of the file at the moment of the call, and the call changes     *)
(* neither the file nor the document in memory.                            *)
C18_BackupCopiesDisk ==
    [][(last'.op = "backup" /\ nops' = nops + 1) =>
           /\ now \in DOMAIN backups'
           /\ backups'[now] = disk
           /\ disk' = disk
           /\ state_data' = state_data]_vars

\* a backup taken while the document in memory differs from the file
C18_Witness ==
    /\ last.op = "backup"
    /\ state_data # disk
    /\ now \in DOMAIN backups /\ backups[now] = disk

\* the safe operations, and the core call each of them makes
SafeOps == {"modify_safe", "delete_safe", "move_safe"}

\* p is a beginning of q
IsPrefix(p, q) == Len(p) <= Len(q) /\ p = SubSeq(q, 1, Len(p))

\* the core mutation of the safe call c returns true on the document sd
CoreReturnsTrue(sd, c) ==
    CASE c.op = "modify_safe" ->
            modify_resource_attribute(sd, c.address, c.arg, _convert_value(c.raw)).res
                = "true"
      [] c.op = "delete_safe" -> delete_resource(sd, c.address).res = "true"
      [] c.op = "move_safe" -> move_resource(sd, c.address, c.arg).res = "true"

(* C19: a safe mutation does, in this order, the existence check, the      *)
(* confirmation, the backup, the mutation in memory and the save, and      *)
(* stops where one of them fails.  The state file is written only in a     *)
(* call that took a backup of it before and whose core mutation returned   *)
(* true; it is unchanged when the resource is absent, the confirmation is  *)
(* declined or the core mutation fails.                                    *)
C19_SafeOrder ==
    [][(nops' = nops + 1 /\ last'.op \in SafeOps) =>
           /\ IsPrefix(last'.out, <<CHECK, CONFIRM, BACKUP, MUTATE, SAVE>>)
           /\ last'.out # <<>>
           /\ disk' # disk =>
                  /\ last'.out = <<CHECK, CONFIRM, BACKUP, MUTATE, SAVE>>
                  /\ now \in DOMAIN backups' /\ backups'[now] = disk
                  /\ CoreReturnsTrue(state_data, last')
                  /\ last'.res = "true"
           /\ last'.res # "true" => disk' = disk
           /\ IF \E i \in 1..Len(last'.out) : last'.out[i] = BACKUP
              THEN now \in DOMAIN backups' /\ backups'[now] = disk
              ELSE backups' = backups
           /\ (\E i \in 1..Len(last'.out) : last'.out[i] = SAVE)
                  <=> last'.res = "true"]_vars

\* a removal that was confirmed, backed up, made and saved
C19_Witness ==
    /\ Called("delete_safe", "true")
    /\ last.out = <<CHECK, CONFIRM, BACKUP, MUTATE, SAVE>>
    /\ now \in DOMAIN backups /\ backups[now] # disk
    /\ Len(ResourceList(disk)) < Len(ResourceList(prev))

(* C20: after any sequence of completed safe operations the state file     *)
(* parses to the document in memory, so that a later save never writes a   *)
(* change made by a call that reported failure.  A modify that fails after *)
(* it created a map (C1) leaves that map in memory and not in the file.    *)
C20_DiskEqualsMemory ==
    disk = state_data

(* C21: every address that list() returns resolves: for each summary s   *)
(* returned by list(), find(s.address) returns a resource whose type and   *)
(* name are those of s, on every loadable document, also when a type holds *)
(* a '.' or a resource lacks its type or name key.  The code joins type    *)
(* and name with '.', writing "unknown" for a missing key, and find splits *)
(* the address at its first '.' and compares with the keys themselves.     *)
C21_ListedAddressesResolve ==
    (last.op = "list" /\ last.res = "ok") =>
        \A k \in 1..Len(last.out) :
            LET s == last.out[k]
                g == get_resource(state_data, s.address)
            IN  /\ ~g.raised
                /\ g.idx # 0
                /\ Field(ResourceList(state_data)[g.idx], TYPE) = s.type
                /\ Field(ResourceList(state_data)[g.idx], NAME) = s.name

\* the step is a call that wrote a backup: create_backup(), or a safe
\* operation that reached its backup
BackupTaken ==
    /\ nops' = nops + 1
    /\ \/ last'.op = "backup"
       \/ last'.op \in SafeOps /\ \E k \in 1..Len(last'.out) : last'.out[k] = BACKUP

(* C22: a backup written by an earlier backup() call is never overwritten  *)
(* by a later one: across backup, mutate and save steps on one state file, *)
(* each backup() call writes to a path that no earlier backup has, and     *)
(* every earlier backup keeps its content, also when two calls fall within *)
(* the same clock second.  The code names the backup after the second of   *)
(* the call, and copies over a file that is already there.                 *)
C22_BackupsKept ==
    [][/\ BackupTaken => now \notin DOMAIN backups
       /\ \A t \in DOMAIN backups :
              t \in DOMAIN backups' /\ backups'[t] = backups[t]]_vars

\* the address holds the separator
WellFormed(address) == \E i \in 1..Len(address) : address[i] = "."

(* C23: read operations stay total after mutations: from a document that   *)
(* passes validate(), after any sequence of successful modify, move and    *)
(* delete calls, list(), find(addr) for a well-formed address and          *)
(* validate() return a result and do not raise, also after a modify that   *)
(* overwrote the instances, type or name of a resource with a scalar.  The *)
(* code takes len() of the instances value in list_resources.              *)
C23_ReadsStayTotal ==
    (\/ last.op \in {"list", "validate"}
     \/ last.op = "get" /\ WellFormed(last.address))
        => last.res # "raise"

(* C2: modify writes the value a raw string parses to when it parses as a  *)
(* structured literal, and the raw string itself when it does not.  The    *)
(* code writes null in the second case: production is stored as null.      *)
C2_ParsedOrVerbatim ==
    Called("modify_safe", "true") =>
        Shows(After, last.arg,
              IF json_loads(last.raw).ok THEN json_loads(last.raw).val
              ELSE Str(last.raw))

====
